---- MODULE Spec2Model ----
(***************************************************************************)
(* A model of the Muncoordinated browser client: the default-fallback      *)
(* helpers of Caucus.tsx (recoverUnit, recoverDuration), the speaker       *)
(* queue of CaucusQueuer.tsx (getNation, setStance) shared by several      *)
(* clients through the realtime database, the snapshot callback of the     *)
(* Caucus component, and the Login component's calls to the auth backend.  *)
(***************************************************************************)
EXTENDS Integers, Naturals, Sequences, FiniteSets, TLC

VARIABLES
  \* ---- recoverDuration / recoverUnit applied to one caucus value
  rcCaucus,      \* the argument: JSUndefined or a CaucusData
  rcDuration,    \* what recoverDuration returned, NotRun before the call
  rcUnit,        \* what recoverUnit returned, NotRun before the call
  \* ---- getNation and the first render of CaucusQueuer, one client
  nMembers,      \* props.members: JSUndefined or Record<MemberID, MemberData>
  nCookies,      \* what getCookie returns for "nation" and "authToken"
  nResult,       \* what getNation returned: a member, null, or Thrown
  nQueueMember,  \* the queueMember state after the render
  \* ---- several clients queueing speakers on one caucus
  srvCaucus,     \* the caucus record in the database (duration and unit),
                 \* which no client changes during a run of the queue
  srvQueue,      \* the caucus's queue in the database: push key -> SpeakerEvent
  inflight,      \* set() calls sent by clients and not yet applied
  props,         \* per client, the props of its last render of CaucusQueuer
  queueMember,   \* per client, the queueMember state
  cookies,       \* per client, its cookie jar
  pushed,        \* per client, how many push keys it has generated
  queue0,        \* history: the queue before any client enqueued
  applied,       \* history: how many enqueues the database has applied
  sent,          \* history: per client, the writes its pushes produced
  lastCall,      \* history: the last call of setStance
  \* ---- the Caucus component and its 'value' listener
  committee,     \* state.committee
  loading,       \* state.loading
  isOwner,       \* state.isOwner
  currentUser,   \* firebase.auth().currentUser
  lastNonNull,   \* history: the last snapshot delivered that was not null
  delivered,     \* history: how many snapshots were delivered
  \* ---- the Login component and the auth backend
  user,          \* state.user
  email,         \* state.email
  loggingIn,     \* state.loggingIn
  creating,      \* state.creating
  resetting,     \* state.resetting
  error,         \* state.error
  success,       \* state.success
  committees,    \* state.committees
  pending,       \* backend calls that have not settled
  started,       \* how many backend calls were started
  event          \* history: the last handler that ran

recoverVars == <<rcCaucus, rcDuration, rcUnit>>
nationVars == <<nMembers, nCookies, nResult, nQueueMember>>
queueVars ==
  <<srvCaucus, srvQueue, inflight, props, queueMember, cookies, pushed,
    queue0, applied, sent, lastCall>>

caucusVars == <<committee, loading, isOwner, currentUser, lastNonNull, delivered>>
loginVars ==
  <<user, email, loggingIn, creating, resetting, error, success, committees,
    pending, started, event>>

vars == <<recoverVars, nationVars, queueVars, caucusVars, loginVars>>

(***************************************************************************)
(* JavaScript values.  Every value is a record with a type tag t, so that  *)
(* undefined, null, NaN, 0 and "" stay different values and truthiness is  *)
(* computed the way the language computes it.                              *)
(***************************************************************************)
JSUndefined == [t |-> "undefined", n |-> 0, s |-> ""]
JSNull == [t |-> "null", n |-> 0, s |-> ""]
JSNaN == [t |-> "NaN", n |-> 0, s |-> ""]
Num(k) == [t |-> "number", n |-> k, s |-> ""]
Str(x) == [t |-> "string", n |-> 0, s |-> x]
NotRun == [t |-> "notrun", n |-> 0, s |-> ""]

\* ToBoolean: undefined, null, NaN, 0 and "" are falsy, objects are truthy.
Truthy(v) ==
  CASE v.t = "undefined" -> FALSE
    [] v.t = "null" -> FALSE
    [] v.t = "NaN" -> FALSE
    [] v.t = "number" -> v.n # 0
    [] v.t = "string" -> v.s # ""
    [] OTHER -> TRUE

\* Number(v), on the values recoverDuration returns.
ToNumber(v) ==
  CASE v.t = "undefined" -> JSNaN
    [] v.t = "null" -> Num(0)
    [] OTHER -> v

\* a || b
Or(a, b) == IF Truthy(a) THEN a ELSE b

(***************************************************************************)
(* enum Unit of TimerSetter, whose members are string-valued.              *)
(***************************************************************************)
UnitMinutes == Str("min")
UnitSeconds == Str("sec")
Unit == {UnitMinutes, UnitSeconds}

\* Bounds of the inputs.
MaxDuration == 4

\* speakerDuration?: number.  The database stores JSON, so no NaN.
Durations == {JSUndefined} \cup {Num(k) : k \in (0 - MaxDuration)..MaxDuration}
\* speakerUnit?: Unit
Units == {JSUndefined} \cup Unit

\* The two fields of CaucusData the helpers read.
CaucusData == [t : {"object"}, speakerDuration : Durations, speakerUnit : Units]
MaybeCaucus == {JSUndefined} \cup CaucusData

\* recoverUnit without the fallback for a missing speakerUnit.
recoverUnitNoDefault(caucus) ==
  IF Truthy(caucus) THEN caucus.speakerUnit ELSE UnitSeconds

recoverUnit(caucus) ==
  IF Truthy(caucus) THEN Or(caucus.speakerUnit, UnitSeconds) ELSE UnitSeconds

\* recoverDuration without the test of speakerDuration.
recoverDurationNoZeroCheck(caucus) ==
  IF Truthy(caucus) THEN caucus.speakerDuration ELSE JSUndefined

recoverDuration(caucus) ==
  IF Truthy(caucus)
    THEN IF Truthy(caucus.speakerDuration)
           THEN caucus.speakerDuration
           ELSE JSUndefined
    ELSE JSUndefined

(***************************************************************************)
(* Members, cookies and getNation (CaucusQueuer.tsx).                      *)
(***************************************************************************)
MemberIDs == {"m1", "m2"}
\* The name each member of the roster carries: a country and a custom name.
MemberName == [m1 |-> "France", m2 |-> "Press"]
Tokens == {Str("t1"), Str("t2")}
\* authToken?: string
StoredTokens == {JSUndefined} \cup Tokens

MemberData ==
  [t : {"object"}, name : {"France", "Press"}, present : BOOLEAN,
   authToken : StoredTokens]

\* Record<MemberID, MemberData> over some of the member ids.
Rosters ==
  UNION {{r \in [ids -> MemberData] : \A m \in ids : r[m].name = MemberName[m]} :
         ids \in SUBSET MemberIDs}

\* props.members: an object holding the record, or undefined.
MembersObject(r) == [t |-> "object", rec |-> r]
MaybeMembers == {JSUndefined} \cup {MembersObject(r) : r \in Rosters}

\* What getCookie can return: JSUndefined for a cookie that is not set, else
\* the cookie's string.  "Peru" names no member of any roster.
NationCookies == {JSUndefined, Str(""), Str("France"), Str("Press"), Str("Peru")}
TokenCookies == {JSUndefined, Str("")} \cup Tokens
CookieJars == [nation : NationCookies, authToken : TokenCookies]

Thrown == [t |-> "TypeError", n |-> 0, s |-> ""]
NoID == "none"

\* getCookie(name) of cookie.ts: the cookie's value, JSUndefined when unset.
getCookie(jar, name) == jar[name]

\* getID(members, nation) of utils.ts: the id of the member named nation.
getID(members, nation) ==
  IF \E m \in DOMAIN members.rec : members.rec[m].name = nation.s
    THEN CHOOSE m \in DOMAIN members.rec : members.rec[m].name = nation.s
    ELSE NoID

\* members[id]: undefined for an id that is no key of members.
Lookup(members, id) ==
  IF id \in DOMAIN members.rec THEN members.rec[id] ELSE JSUndefined

\* a === b on the values modelled here.
StrictEq(a, b) == a = b

getNation(members, jar) ==
  IF Truthy(members)
    THEN LET nation == getCookie(jar, "nation")
         IN IF Truthy(nation)
              THEN LET authToken == getCookie(jar, "authToken")
                       id == getID(members, nation)
                       member == Lookup(members, id)
                   IN IF member = JSUndefined
                        THEN Thrown   \* members[id].authToken of undefined
                        ELSE IF StrictEq(authToken, member.authToken)
                               THEN member
                               ELSE JSNull
              ELSE JSNull
    ELSE JSNull

\* COUNTRY_OPTIONS of constants.ts, cut down to one country.
COUNTRY_OPTIONS ==
  {[t |-> "object", key |-> "fr", value |-> "fr", flag |-> "fr", text |-> "France"]}
FLAG_NAME_SET == {c.text : c \in COUNTRY_OPTIONS}

nameToMemberOption(name) ==
  IF name \in FLAG_NAME_SET
    THEN CHOOSE c \in COUNTRY_OPTIONS : c.text = name
    ELSE [t |-> "object", key |-> name, value |-> name, flag |-> "fm", text |-> name]

\* membersToPresentOptions of utils.ts: the options of the present members.
membersToPresentOptions(members) ==
  IF Truthy(members)
    THEN {nameToMemberOption(members.rec[m].name) :
            m \in {k \in DOMAIN members.rec : members.rec[k].present}}
    ELSE {}

getIdOfCookieNation(name, members) ==
  IF Truthy(name) /\ \E e \in members : e.text = name.name
    THEN Str((CHOOSE e \in members : e.text = name.name).key)
    ELSE JSNull

\* memberOptions.filter(c => c.value === value)[0]
setMemberManual(memberOptions, value) ==
  IF \E c \in memberOptions : c.value = value.s
    THEN CHOOSE c \in memberOptions : c.value = value.s
    ELSE JSUndefined

\* The body of CaucusQueuer up to its return: the queueMember after it, or
\* Thrown when getNation throws and the render is abandoned.
RenderQueueMember(members, jar, selected) ==
  LET memberOptions == membersToPresentOptions(members)
      cookieNation == getNation(members, jar)
  IN IF cookieNation = Thrown THEN Thrown
     ELSE LET cookieNationKey == getIdOfCookieNation(cookieNation, memberOptions)
          IN IF ~Truthy(selected) /\ Truthy(cookieNationKey)
               THEN setMemberManual(memberOptions, cookieNationKey)
               ELSE selected

(***************************************************************************)
(* Constants of the queue runs, and the resting values of each group of    *)
(* variables while another component runs.                                 *)
(***************************************************************************)
Clients == {"c1", "c2"}
\* enum Stance of SpeakerFeed, the argument of the three buttons.
Stance == {"For", "Neutral", "Against"}

\* Bound on the number of setStance calls of one run.
MaxCalls == 3

\* The caucus values of the queue runs.
QueueCaucuses ==
  [t : {"object"}, speakerDuration : {JSUndefined, Num(0), Num(MaxDuration)},
   speakerUnit : Units]

\* The committee's roster: both members present, each with its own token.
QueueRoster ==
  MembersObject(
    [m \in MemberIDs |->
       [t |-> "object", name |-> MemberName[m], present |-> TRUE,
        authToken |-> IF m = "m1" THEN Str("t1") ELSE Str("t2")]])

NoProps == [caucus |-> JSUndefined, members |-> JSUndefined]
NoCall == [n |-> 0, client |-> "", stance |-> ""]

\* An entry some earlier client left in the queue.
OldEntry ==
  [key |-> <<"c0", 1>>,
   value |-> [who |-> "Chad", stance |-> "For", duration |-> 30]]

EmptyQueue == [k \in {} |-> OldEntry.value]
QueueOf(entries) ==
  [k \in {e.key : e \in entries} |-> (CHOOSE e \in entries : e.key = k).value]

RecoverIdle ==
  /\ rcCaucus = JSUndefined
  /\ rcDuration = NotRun
  /\ rcUnit = NotRun

QueueIdle ==
  /\ srvCaucus = JSUndefined
  /\ srvQueue = EmptyQueue
  /\ inflight = {}
  /\ props = [c \in Clients |-> NoProps]
  /\ queueMember = [c \in Clients |-> JSUndefined]
  /\ cookies = [c \in Clients |-> [nation |-> JSUndefined, authToken |-> JSUndefined]]
  /\ pushed = [c \in Clients |-> 0]
  /\ queue0 = EmptyQueue
  /\ applied = 0
  /\ sent = [c \in Clients |-> <<>>]
  /\ lastCall = NoCall

\* The Caucus component as constructed.
CaucusIdle ==
  /\ committee = JSUndefined
  /\ loading = TRUE
  /\ isOwner = FALSE
  /\ currentUser = JSNull
  /\ lastNonNull = NotRun
  /\ delivered = 0

NoEvent == [n |-> 0, what |-> "none", kind |-> "", arg |-> JSUndefined]

\* The Login component as constructed.
LoginIdle ==
  /\ user = JSUndefined
  /\ email = ""
  /\ loggingIn = FALSE
  /\ creating = FALSE
  /\ resetting = FALSE
  /\ error = JSUndefined
  /\ success = JSUndefined
  /\ committees = JSUndefined
  /\ pending = {}
  /\ started = 0
  /\ event = NoEvent

NationIdle ==
  /\ nMembers = JSUndefined
  /\ nCookies = [nation |-> JSUndefined, authToken |-> JSUndefined]
  /\ nResult = NotRun
  /\ nQueueMember = JSUndefined

InitNation ==
  /\ nMembers \in MaybeMembers
  /\ nCookies \in CookieJars
  /\ nResult = NotRun
  /\ nQueueMember = JSUndefined
  /\ RecoverIdle
  /\ QueueIdle
  /\ CaucusIdle
  /\ LoginIdle

CallGetNation ==
  /\ nResult = NotRun
  /\ nResult' = getNation(nMembers, nCookies)
  /\ UNCHANGED <<nMembers, nCookies, nQueueMember, recoverVars, queueVars, caucusVars,
                 loginVars>>

RenderCaucusQueuer ==
  /\ nResult # NotRun
  /\ nQueueMember = JSUndefined
  /\ RenderQueueMember(nMembers, nCookies, nQueueMember) \notin {Thrown, JSUndefined}
  /\ nQueueMember' = RenderQueueMember(nMembers, nCookies, nQueueMember)
  /\ UNCHANGED <<nMembers, nCookies, nResult, recoverVars, queueVars, caucusVars,
                 loginVars>>

NextNation == CallGetNation \/ RenderCaucusQueuer

SpecNation == InitNation /\ [][NextNation]_vars

\* The client holds the token of the member its nation cookie names.
Authenticated(members, jar) ==
  /\ members # JSUndefined
  /\ jar.nation.t = "string"
  /\ jar.authToken.t = "string"
  /\ \E m \in DOMAIN members.rec :
       /\ members.rec[m].name = jar.nation.s
       /\ members.rec[m].authToken.t = "string"
       /\ members.rec[m].authToken = jar.authToken

\* C6: getNation returns a member only when the nation cookie names a member
\* and the authToken cookie equals that member's stored token; in every other
\* case (no members, no nation cookie, token mismatch, member without a token,
\* client without a token cookie) it returns null, so no client is selected
\* to queue as a nation it has not authenticated for.
C6_GetNationAuthenticated ==
  /\ nResult # NotRun =>
       IF Authenticated(nMembers, nCookies)
         THEN /\ nResult \in MemberData
              /\ nResult.name = nCookies.nation.s
         ELSE nResult = JSNull
  /\ nQueueMember # JSUndefined => Authenticated(nMembers, nCookies)

(***************************************************************************)
(* The speaker queue: CaucusQueuer's setStance on several clients, the     *)
(* database applying their writes in any order.                            *)
(***************************************************************************)
InitQueue ==
  /\ srvCaucus \in QueueCaucuses
  /\ srvQueue \in {EmptyQueue, QueueOf({OldEntry})}
  /\ queue0 = srvQueue
  /\ inflight = {}
  /\ props = [c \in Clients |-> NoProps]
  /\ queueMember = [c \in Clients |-> JSUndefined]
  /\ cookies \in
       {[c1 |-> [nation |-> Str("France"), authToken |-> Str("t1")], c2 |-> j] :
          j \in {[nation |-> Str("Press"), authToken |-> Str("t2")],
                 [nation |-> Str("Press"), authToken |-> Str("t1")]}}
  /\ pushed = [c \in Clients |-> 0]
  /\ applied = 0
  /\ sent = [c \in Clients |-> <<>>]
  /\ lastCall = NoCall
  /\ RecoverIdle
  /\ NationIdle
  /\ CaucusIdle
  /\ LoginIdle

\* Keys drawn from one counter, the same on every client.
PushKeyWithoutClient(c, n) == <<"c0", n>>

\* push(): a key no other push has produced, from the client's clock and its
\* random bits; here the client's name and the count of its pushes.
PushKey(c, n) == <<c, n>>

\* setStance without the conversion of minutes to seconds.
setStanceNoUnit(caucus, member, stance) ==
  LET duration == ToNumber(recoverDuration(caucus))
  IN IF Truthy(duration) /\ Truthy(member)
       THEN {[who |-> member.text, stance |-> stance, duration |-> duration.n]}
       ELSE {}

\* The events setStance pushes: none or one.
setStanceEvents(caucus, member, stance) ==
  LET duration == ToNumber(recoverDuration(caucus))
  IN IF Truthy(duration) /\ Truthy(member)
       THEN {[who |-> member.text,
              stance |-> stance,
              duration |-> IF recoverUnit(caucus) = UnitMinutes
                             THEN duration.n * 60
                             ELSE duration.n]}
       ELSE {}

\* A click on one of the three buttons of client c.
setStance(c, stance) ==
  /\ lastCall.n < MaxCalls
  /\ LET events == setStanceEvents(props[c].caucus, queueMember[c], stance)
         writes == {[key |-> PushKey(c, pushed[c] + 1), value |-> e] : e \in events}
     IN /\ inflight' = inflight \cup writes
        /\ pushed' = [pushed EXCEPT ![c] = pushed[c] + Cardinality(events)]
        /\ sent' = [sent EXCEPT ![c] =
                      IF writes = {} THEN sent[c]
                      ELSE Append(sent[c], CHOOSE w \in writes : TRUE)]
  /\ lastCall' = [n |-> lastCall.n + 1, client |-> c, stance |-> stance]
  /\ UNCHANGED <<srvCaucus, srvQueue, props, queueMember, cookies, queue0, applied>>
  /\ UNCHANGED <<recoverVars, nationVars, caucusVars, loginVars>>

\* The database applies one set(): the value is stored under its key.
ServerWrite(w) ==
  /\ w \in inflight
  /\ inflight' = inflight \ {w}
  /\ srvQueue' =
       [k \in DOMAIN srvQueue \cup {w.key} |->
          IF k = w.key THEN w.value ELSE srvQueue[k]]
  /\ applied' = applied + 1
  /\ UNCHANGED <<srvCaucus, props, queueMember, cookies, pushed, queue0, sent, lastCall>>
  /\ UNCHANGED <<recoverVars, nationVars, caucusVars, loginVars>>

\* A 'value' event reaches client c: Caucus renders CaucusQueuer with the
\* caucus and the members of the snapshot, and the render selects the member
\* of the cookies when none is selected.
RenderClient(c) ==
  /\ LET members == QueueRoster
         next == RenderQueueMember(members, cookies[c], queueMember[c])
     IN /\ next # Thrown
        /\ <<props[c].caucus, queueMember[c]>> # <<srvCaucus, next>>
        /\ props' = [props EXCEPT ![c] = [caucus |-> srvCaucus, members |-> members]]
        /\ queueMember' = [queueMember EXCEPT ![c] = next]
  /\ UNCHANGED <<srvCaucus, srvQueue, inflight, cookies, pushed, queue0, applied, sent,
                 lastCall>>
  /\ UNCHANGED <<recoverVars, nationVars, caucusVars, loginVars>>

NextQueue ==
  \/ \E c \in Clients, stance \in Stance : setStance(c, stance)
  \/ \E w \in inflight : ServerWrite(w)
  \/ \E c \in Clients : RenderClient(c)

SpecQueue == InitQueue /\ [][NextQueue]_vars

RECURSIVE SentCount(_)
SentCount(cs) ==
  IF cs = {} THEN 0
  ELSE LET c == CHOOSE x \in cs : TRUE IN Len(sent[c]) + SentCount(cs \ {c})

\* C3: clients enqueueing on the same caucus in any interleaving: every enqueue
\* that passes the guard adds one entry under a fresh key and never overwrites
\* or removes an entry of another client; after n applied enqueues the queue
\* holds n more entries than before.
C3_FreshKeys ==
  /\ Cardinality(DOMAIN srvQueue) = Cardinality(DOMAIN queue0) + applied
  /\ applied + Cardinality(inflight) = SentCount(Clients)
  /\ \A k \in DOMAIN queue0 : k \in DOMAIN srvQueue /\ srvQueue[k] = queue0[k]
  /\ \A c \in Clients : \A i \in 1..Len(sent[c]) :
       LET w == sent[c][i]
       IN \/ w \in inflight /\ w.key \notin DOMAIN srvQueue
          \/ w \notin inflight /\ w.key \in DOMAIN srvQueue /\ srvQueue[w.key] = w.value

C3_Witness ==
  /\ applied >= 2
  /\ \E k1, k2 \in DOMAIN srvQueue :
       /\ k1[1] = "c1"
       /\ k2[1] = "c2"

\* C5: setStance pushes exactly one SpeakerEvent when a queue member is
\* selected and the recovered duration is a non-zero number, and otherwise
\* leaves the queue alone; the event carries the member's text, the stance
\* given, and the duration in seconds (times 60 when the unit is Minutes).
C5_SetStance ==
  [][lastCall' # lastCall =>
       LET c == lastCall'.client
           caucus == props[c].caucus
           ready == /\ queueMember[c] # JSUndefined
                    /\ caucus # JSUndefined
                    /\ caucus.speakerDuration \notin {JSUndefined, Num(0)}
       IN /\ srvQueue' = srvQueue
          /\ IF ready
               THEN \E w \in inflight' :
                      /\ w \notin inflight
                      /\ inflight' = inflight \cup {w}
                      /\ w.value.who = queueMember[c].text
                      /\ w.value.stance = lastCall'.stance
                      /\ w.value.duration =
                           IF caucus.speakerUnit = UnitMinutes
                             THEN caucus.speakerDuration.n * 60
                             ELSE caucus.speakerDuration.n
               ELSE inflight' = inflight]_vars

C5_Witness ==
  /\ lastCall.n > 0
  /\ \E w \in inflight :
       /\ w.key[1] = lastCall.client
       /\ w.value.duration = MaxDuration * 60
       /\ w.value.who = "France"

(***************************************************************************)
(* The helpers applied to every caucus value of the bounded input set.     *)
(***************************************************************************)
RecoverStart ==
  /\ rcDuration = NotRun
  /\ rcUnit = NotRun

InitRecover ==
  /\ rcCaucus \in MaybeCaucus
  /\ RecoverStart
  /\ NationIdle
  /\ QueueIdle
  /\ CaucusIdle
  /\ LoginIdle

CallRecoverDuration ==
  /\ rcDuration = NotRun
  /\ rcDuration' = recoverDuration(rcCaucus)
  /\ UNCHANGED <<rcCaucus, rcUnit, nationVars, queueVars, caucusVars, loginVars>>

CallRecoverUnit ==
  /\ rcUnit = NotRun
  /\ rcUnit' = recoverUnit(rcCaucus)
  /\ UNCHANGED <<rcCaucus, rcDuration, nationVars, queueVars, caucusVars, loginVars>>

NextRecover == CallRecoverDuration \/ CallRecoverUnit

SpecRecover == InitRecover /\ [][NextRecover]_vars

\* C1: recoverDuration(caucus) is caucus.speakerDuration exactly when a caucus
\* is given and its speakerDuration is present and non-zero; for a missing
\* caucus, a missing speakerDuration or a speakerDuration of 0 it is undefined,
\* and it is never 0.
C1_RecoverDuration ==
  rcDuration # NotRun =>
    /\ rcDuration # Num(0)
    /\ IF /\ rcCaucus # JSUndefined
          /\ rcCaucus.speakerDuration # JSUndefined
          /\ rcCaucus.speakerDuration # Num(0)
         THEN rcDuration = rcCaucus.speakerDuration
         ELSE rcDuration = JSUndefined

C1_Witness ==
  /\ rcDuration # NotRun
  /\ rcCaucus # JSUndefined
  /\ rcCaucus.speakerDuration = Num(0)
  /\ rcDuration = JSUndefined

\* C2: recoverUnit(caucus) is Unit.Seconds when the caucus or its speakerUnit
\* is missing, otherwise the caucus's own speakerUnit; it is always a Unit.
C2_RecoverUnit ==
  rcUnit # NotRun =>
    /\ rcUnit \in Unit
    /\ IF rcCaucus = JSUndefined THEN rcUnit = UnitSeconds
       ELSE IF rcCaucus.speakerUnit = JSUndefined THEN rcUnit = UnitSeconds
       ELSE rcUnit = rcCaucus.speakerUnit

C2_Witness ==
  /\ rcUnit # NotRun
  /\ rcCaucus # JSUndefined
  /\ rcCaucus.speakerUnit = UnitMinutes
  /\ rcUnit = UnitMinutes

(***************************************************************************)
(* The Caucus component: its 'value' listener on the committee.            *)
(***************************************************************************)
\* Bound on the snapshots delivered in one run.
MaxSnapshots == 4

Uids == {"u1", "u2"}
UserObject(uid) == [t |-> "object", uid |-> uid]
Users == {UserObject(u) : u \in Uids}

\* CommitteeData, as far as the component reads it.
CommitteeData == [t : {"object"}, creatorUid : Uids, name : {"SC", "GA"}]

\* A DataSnapshot: val() is null where the database holds nothing.
SnapshotOf(v) == [t |-> "object", val |-> v]
Snapshots == {SnapshotOf(v) : v \in {JSNull} \cup CommitteeData}

\* isOwner(committee, user) of utils.ts: the user created the committee.
isOwnerUtil(c, u) == Truthy(c) /\ c.creatorUid = u.uid

\* firebaseCallback without loading: false in its setState.
firebaseCallbackKeepsLoading(state, snapshot) ==
  IF Truthy(snapshot)
    THEN [committee |-> snapshot.val, loading |-> state.loading]
    ELSE state

\* The committee and loading fields after firebaseCallback's first setState.
firebaseCallbackState(state, snapshot) ==
  IF Truthy(snapshot)
    THEN [committee |-> snapshot.val, loading |-> FALSE]
    ELSE state

\* firebaseCallback(snapshot).  The second setState reads this.state.committee,
\* which holds the new committee when React applied the first setState at once
\* and the old one when it batched it.
firebaseCallback(snapshot) ==
  /\ delivered < MaxSnapshots
  /\ LET next == firebaseCallbackState(
                   [committee |-> committee, loading |-> loading], snapshot)
     IN /\ committee' = next.committee
        /\ loading' = next.loading
        /\ IF Truthy(currentUser)
             THEN \E seen \in {committee, next.committee} :
                    isOwner' = isOwnerUtil(seen, currentUser)
             ELSE isOwner' = isOwner
  /\ lastNonNull' = IF snapshot # JSNull THEN snapshot ELSE lastNonNull
  /\ delivered' = delivered + 1
  /\ UNCHANGED currentUser
  /\ UNCHANGED <<recoverVars, nationVars, queueVars, loginVars>>

\* The auth backend signs a user in or out.
AuthChange(u) ==
  /\ currentUser # u
  /\ currentUser' = u
  /\ UNCHANGED <<committee, loading, isOwner, lastNonNull, delivered>>
  /\ UNCHANGED <<recoverVars, nationVars, queueVars, loginVars>>

InitCaucus ==
  /\ CaucusIdle
  /\ RecoverIdle
  /\ NationIdle
  /\ QueueIdle
  /\ LoginIdle

NextCaucus ==
  \/ \E snapshot \in {JSNull} \cup Snapshots : firebaseCallback(snapshot)
  \/ \E u \in {JSNull} \cup Users : AuthChange(u)

SpecCaucus == InitCaucus /\ [][NextCaucus]_vars

\* C4: after any sequence of 'value' snapshots the committee state is the
\* value of the last non-null snapshot delivered; a null snapshot changes
\* neither committee nor loading; loading starts true, is false from the first
\* non-null snapshot on and never true again.
C4_LastSnapshot ==
  IF lastNonNull = NotRun
    THEN committee = JSUndefined /\ loading = TRUE
    ELSE committee = lastNonNull.val /\ loading = FALSE

C4_Witness ==
  /\ delivered = MaxSnapshots
  /\ lastNonNull # NotRun
  /\ committee \in CommitteeData
  /\ loading = FALSE

(***************************************************************************)
(* The Login component: its handlers, and the auth backend and the         *)
(* database settling the calls they start, in any order.                   *)
(***************************************************************************)
\* Bound on the backend calls started in one run.
MaxBackendCalls == 2

Errors == {Str("auth/wrong-password"), Str("auth/network-request-failed")}
Emails == {"", "joe@schmoe.com"}
\* The success messages; the reset's names the address the mail went to.
AccountCreated == [t |-> "object", name |-> "Account created", to |-> ""]
PasswordReset(to) == [t |-> "object", name |-> "Password reset", to |-> to]

\* Record<CommitteeID, CommitteeData>, by the ids it holds.
CommitteesObject(ids) == [t |-> "object", ids |-> ids]
\* committees.val() of the query: null when nobody's committee matches.
QueryValues == {JSNull, CommitteesObject({"k1"})}

Call(id, kind, arg) == [id |-> id, kind |-> kind, arg |-> arg]
Toggle(n) == 1 - n
Event(what, kind, arg) ==
  [n |-> Toggle(event.n), what |-> what, kind |-> kind, arg |-> arg]

UnchangedOthers == UNCHANGED <<recoverVars, nationVars, queueVars, caucusVars>>

\* The part of authStateChangedCallback's setState the flags take.
authStateFlags(flags) == [loggingIn |-> FALSE, creating |-> FALSE]

\* The query authStateChangedCallback starts: none for a null user.
authStateQueries(u, id) ==
  IF Truthy(u) THEN {Call(id, "query", Str(u.uid))} ELSE {}

authStateChangedCallback(u) ==
  /\ started < MaxBackendCalls
  /\ LET flags == authStateFlags([loggingIn |-> loggingIn, creating |-> creating])
     IN /\ loggingIn' = flags.loggingIn
        /\ creating' = flags.creating
  /\ user' = u
  /\ pending' = pending \cup authStateQueries(u, started + 1)
  /\ started' = started + 1
  /\ event' = Event("auth", "", u)
  /\ UNCHANGED <<email, resetting, error, success, committees>>
  /\ UnchangedOthers

\* committees.val() without the || {}.
queryCommitteesNoDefault(val) == val

\* committees.val() || {}
queryCommittees(val) == Or(val, CommitteesObject({}))

\* The once('value') promise of a query resolves.
queryResolve(call, val) ==
  /\ call \in pending /\ call.kind = "query"
  /\ committees' = queryCommittees(val)
  /\ pending' = pending \ {call}
  /\ event' = Event("resolve", "query", val)
  /\ UNCHANGED <<user, email, loggingIn, creating, resetting, error, success, started>>
  /\ UnchangedOthers

\* The promise of a query rejects: no handler is attached.
queryReject(call) ==
  /\ call \in pending /\ call.kind = "query"
  /\ pending' = pending \ {call}
  /\ event' = Event("reject", "query", JSUndefined)
  /\ UNCHANGED <<user, email, loggingIn, creating, resetting, error, success, committees,
                 started>>
  /\ UnchangedOthers

\* The flag a handler sets when it starts its call.
startFlag(kind) == TRUE

\* A catch that does not clear the flag.
settledFlagStuck(kind, outcome) == outcome = "reject"

\* The flag a handler's then and catch set when the call has settled.
settledFlag(kind, outcome) == FALSE

login ==
  /\ started < MaxBackendCalls
  /\ loggingIn' = startFlag("signIn")
  /\ pending' = pending \cup {Call(started + 1, "signIn", JSUndefined)}
  /\ started' = started + 1
  /\ event' = Event("start", "signIn", JSUndefined)
  /\ UNCHANGED <<user, email, creating, resetting, error, success, committees>>
  /\ UnchangedOthers

loginResolve(call) ==
  /\ call \in pending /\ call.kind = "signIn"
  /\ loggingIn' = settledFlag("signIn", "resolve")
  /\ pending' = pending \ {call}
  /\ event' = Event("resolve", "signIn", JSUndefined)
  /\ UNCHANGED <<user, email, creating, resetting, error, success, committees, started>>
  /\ UnchangedOthers

loginReject(call, err) ==
  /\ call \in pending /\ call.kind = "signIn"
  /\ loggingIn' = settledFlag("signIn", "reject")
  /\ error' = err
  /\ pending' = pending \ {call}
  /\ event' = Event("reject", "signIn", err)
  /\ UNCHANGED <<user, email, creating, resetting, success, committees, started>>
  /\ UnchangedOthers

createAccount ==
  /\ started < MaxBackendCalls
  /\ creating' = startFlag("createUser")
  /\ pending' = pending \cup {Call(started + 1, "createUser", JSUndefined)}
  /\ started' = started + 1
  /\ event' = Event("start", "createUser", JSUndefined)
  /\ UNCHANGED <<user, email, loggingIn, resetting, error, success, committees>>
  /\ UnchangedOthers

createAccountResolve(call) ==
  /\ call \in pending /\ call.kind = "createUser"
  /\ creating' = settledFlag("createUser", "resolve")
  /\ success' = AccountCreated
  /\ pending' = pending \ {call}
  /\ event' = Event("resolve", "createUser", JSUndefined)
  /\ UNCHANGED <<user, email, loggingIn, resetting, error, committees, started>>
  /\ UnchangedOthers

createAccountReject(call, err) ==
  /\ call \in pending /\ call.kind = "createUser"
  /\ creating' = settledFlag("createUser", "reject")
  /\ error' = err
  /\ pending' = pending \ {call}
  /\ event' = Event("reject", "createUser", err)
  /\ UNCHANGED <<user, email, loggingIn, resetting, success, committees, started>>
  /\ UnchangedOthers

resetPassword ==
  /\ started < MaxBackendCalls
  /\ resetting' = startFlag("resetEmail")
  /\ pending' = pending \cup {Call(started + 1, "resetEmail", Str(email))}
  /\ started' = started + 1
  /\ event' = Event("start", "resetEmail", JSUndefined)
  /\ UNCHANGED <<user, email, loggingIn, creating, error, success, committees>>
  /\ UnchangedOthers

resetPasswordResolve(call) ==
  /\ call \in pending /\ call.kind = "resetEmail"
  /\ resetting' = settledFlag("resetEmail", "resolve")
  /\ success' = PasswordReset(call.arg.s)
  /\ pending' = pending \ {call}
  /\ event' = Event("resolve", "resetEmail", JSUndefined)
  /\ UNCHANGED <<user, email, loggingIn, creating, error, committees, started>>
  /\ UnchangedOthers

resetPasswordReject(call, err) ==
  /\ call \in pending /\ call.kind = "resetEmail"
  /\ resetting' = settledFlag("resetEmail", "reject")
  /\ error' = err
  /\ pending' = pending \ {call}
  /\ event' = Event("reject", "resetEmail", err)
  /\ UNCHANGED <<user, email, loggingIn, creating, success, committees, started>>
  /\ UnchangedOthers

logout ==
  /\ started < MaxBackendCalls
  /\ pending' = pending \cup {Call(started + 1, "signOut", JSUndefined)}
  /\ started' = started + 1
  /\ event' = Event("start", "signOut", JSUndefined)
  /\ UNCHANGED <<user, email, loggingIn, creating, resetting, error, success,
                 committees>>
  /\ UnchangedOthers

logoutResolve(call) ==
  /\ call \in pending /\ call.kind = "signOut"
  /\ pending' = pending \ {call}
  /\ event' = Event("resolve", "signOut", JSUndefined)
  /\ UNCHANGED <<user, email, loggingIn, creating, resetting, error, success,
                 committees, started>>
  /\ UnchangedOthers

logoutReject(call, err) ==
  /\ call \in pending /\ call.kind = "signOut"
  /\ error' = err
  /\ pending' = pending \ {call}
  /\ event' = Event("reject", "signOut", err)
  /\ UNCHANGED <<user, email, loggingIn, creating, resetting, success, committees,
                 started>>
  /\ UnchangedOthers

setEmail(value) ==
  /\ email # value
  /\ email' = value
  /\ event' = Event("input", "email", Str(value))
  /\ UNCHANGED <<user, loggingIn, creating, resetting, error, success, committees,
                 pending, started>>
  /\ UnchangedOthers

dismissError ==
  /\ error # JSUndefined
  /\ error' = JSUndefined
  /\ event' = Event("dismiss", "error", JSUndefined)
  /\ UNCHANGED <<user, email, loggingIn, creating, resetting, success, committees, pending,
                 started>>
  /\ UnchangedOthers

dismissSuccess ==
  /\ success # JSUndefined
  /\ success' = JSUndefined
  /\ event' = Event("dismiss", "success", JSUndefined)
  /\ UNCHANGED <<user, email, loggingIn, creating, resetting, error, committees, pending,
                 started>>
  /\ UnchangedOthers

\* What renderLoggedIn shows in its committees card.
renderLoggedIn == IF Truthy(committees) THEN "committees" ELSE "Loading"

InitLogin ==
  /\ LoginIdle
  /\ RecoverIdle
  /\ NationIdle
  /\ QueueIdle
  /\ CaucusIdle

\* One backend call settles, either way.
Settle(call) ==
  \/ loginResolve(call)
  \/ \E err \in Errors : loginReject(call, err)
  \/ createAccountResolve(call)
  \/ \E err \in Errors : createAccountReject(call, err)
  \/ resetPasswordResolve(call)
  \/ \E err \in Errors : resetPasswordReject(call, err)
  \/ \E val \in QueryValues : queryResolve(call, val)
  \/ queryReject(call)
  \/ logoutResolve(call)
  \/ \E err \in Errors : logoutReject(call, err)

NextLogin ==
  \/ \E u \in {JSNull} \cup {UserObject("u1")} : authStateChangedCallback(u)
  \/ login
  \/ createAccount
  \/ resetPassword
  \/ logout
  \/ \E value \in Emails : setEmail(value)
  \/ \E call \in pending : Settle(call)
  \/ dismissError
  \/ dismissSuccess

SpecLogin == InitLogin /\ [][NextLogin]_vars

\* Every backend call that is pending settles in the end.
CallsSettle ==
  \A id \in 1..MaxBackendCalls :
    WF_vars(\E call \in pending : call.id = id /\ Settle(call))

LiveLogin == SpecLogin /\ CallsSettle

FlagOf(kind) ==
  CASE kind = "signIn" -> loggingIn
    [] kind = "createUser" -> creating
    [] kind = "resetEmail" -> resetting
    [] OTHER -> FALSE

Flagged == {"signIn", "createUser", "resetEmail"}

\* C7: login, createAccount and resetPassword each set their flag (loggingIn,
\* creating, resetting) when started; when the backend call settles the flag is
\* false again, on rejection error holds the rejection, on resolution of
\* createAccount or resetPassword success is set; and no flag stays true for
\* ever when every backend call settles.
C7_FlagsSettle ==
  /\ [][event' # event =>
          /\ \A kind \in Flagged :
               /\ event'.what = "start" /\ event'.kind = kind =>
                    FlagOf(kind)' = TRUE
               /\ event'.what \in {"resolve", "reject"} /\ event'.kind = kind =>
                    FlagOf(kind)' = FALSE
          /\ event'.what = "reject" /\ event'.kind \in Flagged =>
               error' = event'.arg
          /\ event'.what = "resolve" /\ event'.kind = "createUser" =>
               success' = AccountCreated
          /\ event'.what = "resolve" /\ event'.kind = "resetEmail" =>
               success' # JSUndefined /\ success'.name = "Password reset"]_vars
  /\ loggingIn ~> ~loggingIn
  /\ creating ~> ~creating
  /\ resetting ~> ~resetting

C7_Witness ==
  /\ event.what = "reject"
  /\ event.kind = "resetEmail"
  /\ error = event.arg
  /\ ~resetting
  /\ loggingIn

QueryPending == \E call \in pending : call.kind = "query"

\* C8: every auth-state change sets loggingIn and creating to false and user
\* to the user delivered; for a non-null user a query is started, and when it
\* resolves committees is defined, the empty record when no committee was
\* found, so the logged-in view leaves its loading state.
C8_AuthState ==
  /\ [][event' # event =>
          /\ event'.what = "auth" =>
               /\ loggingIn' = FALSE
               /\ creating' = FALSE
               /\ user' = event'.arg
               /\ event'.arg # JSNull =>
                    \E call \in pending' \ pending :
                      call.kind = "query" /\ call.arg = Str(event'.arg.uid)
          /\ event'.what = "resolve" /\ event'.kind = "query" =>
               /\ committees' # JSUndefined
               /\ event'.arg = JSNull => committees' = CommitteesObject({})
               /\ event'.arg # JSNull => committees' = event'.arg
               /\ renderLoggedIn' = "committees"]_vars
  /\ QueryPending ~>
       \/ renderLoggedIn = "committees"
       \/ event.what = "reject" /\ event.kind = "query"

C8_Witness ==
  /\ event.what = "resolve"
  /\ event.kind = "query"
  /\ event.arg = JSNull
  /\ user # JSNull
  /\ committees = CommitteesObject({})
  /\ renderLoggedIn = "committees"

====
